---- MODULE Spec2Model ----
(***************************************************************************)
(* Pointer acceleration curve editor (simulator2.py), its earlier variant  *)
(* (simulator.py), the device enumeration and the device interface of      *)
(* both, and the fixed-point curve decoder                                 *)
(* (gemini_research_windows/mouse.py).                                     *)
(*                                                                         *)
(* Number representation.  Function coordinates (input, output) are kept   *)
(* as integer multiples of 1/Unit, Unit = 460 being the drawable width in  *)
(* pixels, so 0.5 is 230, 0.1 is 46 and 3.0 is 1380.  Canvas coordinates   *)
(* are kept as integer multiples of 1/Sub pixel (Sub = 3), which is the    *)
(* resolution at which every canvas coordinate the editor computes from    *)
(* integer pixel events is exact.  Control point indices are 0-based as in *)
(* the source; the i-th point of the list is points[i + 1].                *)
(*                                                                         *)
(* The source computes in binary floating point.  Its results are those of *)
(* exact arithmetic up to rounding errors far below the resolution above,  *)
(* and the one comparison in which an error of that size decides is the    *)
(* hit test of a point exactly POINT_RADIUS away from the press: there the *)
(* answer follows the rounding errors of the operations that gave the      *)
(* point its value, and both answers are behaviours of the model.          *)
(*                                                                         *)
(* Device names are kept as sequences of characters.  Decoded samples are  *)
(* kept as integer multiples of 1/65536.                                   *)
(***************************************************************************)
EXTENDS Integers, Sequences, FiniteSets, TLC

VARIABLES points, selected_indices, drag_data,
          use_windows_curve, enable_nonlinear_boost, enable_acceleration_cap,
          lock_low_speed, last, steps, platform, xinput, device_name_var,
          smooth_mouse_x_curve, smooth_mouse_y_curve,
          x_points, y_points, coordinates, pc,
          xinput_list, pointer_devices, enum_pc

vars == <<points, selected_indices, drag_data,
          use_windows_curve, enable_nonlinear_boost, enable_acceleration_cap,
          lock_low_speed, last, steps, platform, xinput, device_name_var,
          smooth_mouse_x_curve, smooth_mouse_y_curve,
          x_points, y_points, coordinates, pc,
          xinput_list, pointer_devices, enum_pc>>

editorVars == <<points, selected_indices, drag_data,
                use_windows_curve, enable_nonlinear_boost,
                enable_acceleration_cap, lock_low_speed, last, steps,
                platform, xinput, device_name_var>>

decoderVars == <<smooth_mouse_x_curve, smooth_mouse_y_curve,
                 x_points, y_points, coordinates, pc>>

enumVars == <<xinput_list, pointer_devices, enum_pc>>

(***************************************************************************)
(* Bounds of the model.                                                    *)
(***************************************************************************)
\* Number of editor events in one session on a platform other than Linux,
\* where the curve is never applied to a device.
MaxSteps == 4
\* Number of editor events in one session on Linux, where every redraw
\* applies the curve to the device and the device answers in many ways.
MaxStepsLinux == 2
\* Number of whole 8-byte records in the X table.
MaxRecords == 2
\* Number of whole 8-byte records in the Y table.
MaxRecordsY == 1
\* Number of names xinput lists.
MaxDevices == 4

(***************************************************************************)
(* Constants of simulator2.py.                                             *)
(***************************************************************************)
CANVAS_WIDTH == 500
CANVAS_HEIGHT == 500
MARGIN == 20
POINT_RADIUS == 6

drawable_width == CANVAS_WIDTH - 2 * MARGIN
drawable_height == CANVAS_HEIGHT - 2 * MARGIN

\* One whole unit of the function coordinates.
Unit == drawable_width

\* n/10 as a function coordinate.
Tenths(n) == (n * Unit) \div 10

X_MIN == Tenths(0)
X_MAX == Tenths(10)
Y_MIN == Tenths(0)
Y_MAX == Tenths(30)
DELTA_Y == Tenths(1)

\* Canvas coordinates are multiples of 1/Sub pixel.
Sub == (Y_MAX - Y_MIN) \div Unit

WINDOWS_CURVE ==
    << <<Tenths(0), Tenths(0)>>,
       <<Tenths(3), Tenths(3)>>,
       <<Tenths(6), Tenths(12)>>,
       <<Tenths(10), Tenths(25)>> >>

\* Python's None, for find_nearby_point's result and drag_data["point_index"].
None == -1

min(a, b) == IF a <= b THEN a ELSE b
max(a, b) == IF a >= b THEN a ELSE b

\* The point with 0-based index i.
Pt(pts, i) == pts[i + 1]

to_canvas_coords(x, y) ==
    << Sub * MARGIN
         + ((x - X_MIN) * Sub * drawable_width) \div (X_MAX - X_MIN),
       Sub * (CANVAS_HEIGHT - MARGIN)
         - ((y - Y_MIN) * Sub * drawable_height) \div (Y_MAX - Y_MIN) >>

to_function_coords(canvas_x, canvas_y) ==
    << ((canvas_x - Sub * MARGIN) * (X_MAX - X_MIN))
           \div (Sub * drawable_width) + X_MIN,
       ((Sub * (CANVAS_HEIGHT - MARGIN) - canvas_y) * (Y_MAX - Y_MIN))
           \div (Sub * drawable_height) + Y_MIN >>

(***************************************************************************)
(* Inputs: pointer events at integer pixel positions <<x, y>>.             *)
(***************************************************************************)
EventPositions ==
    { <<20, 480>>,    \* low point of every preset
      <<250, 403>>,   \* mid point of the default preset (y = 403.33)
      <<158, 434>>,   \* Windows point 1
      <<296, 296>>,   \* Windows point 2
      <<480, 97>>,    \* high point with the cap, Windows point 3 (y = 96.67)
      <<400, 27>>,    \* less than 0.1 below the top of the output range
      <<480, 103>>,   \* exactly POINT_RADIUS below pixel (480, 97)
      <<0, 500>>,     \* outside the drawable area, below and left
      <<500, 0>> }    \* outside the drawable area, above and right

\* The last event: its kind and position, the modifier, whether an exception
\* left the handler and, for a press, the indices of the points exactly
\* POINT_RADIUS away that the hit test found in reach.
Event(op, e, shift, raised) ==
    [op |-> op, x |-> e[1], y |-> e[2], shift |-> shift, raised |-> raised,
     inward |-> {}]

NoPos == <<0, 0>>

(***************************************************************************)
(* simulator2.py: get_pointer_devices.  A device name is the sequence of   *)
(* its characters, so that name.lower() and the substring tests are        *)
(* computed as Python computes them.  The alphabet is ASCII: str.lower()   *)
(* maps the 26 capital letters and leaves every other character alone.     *)
(***************************************************************************)
\* "USB Mouse": usb and mouse.
USB_MOUSE ==
    <<"U", "S", "B", " ", "M", "o", "u", "s", "e">>
\* "Opticalmouse": optical and mouse inside one word.
OPTICALMOUSE ==
    <<"O", "p", "t", "i", "c", "a", "l", "m", "o", "u", "s", "e">>
\* "MOUSEPAD": mouse in capitals, inside a word.
MOUSEPAD ==
    <<"M", "O", "U", "S", "E", "P", "A", "D">>
\* "ELAN Touchpad": touchpad only.
ELAN_TOUCHPAD ==
    <<"E", "L", "A", "N", " ", "T", "o", "u", "c", "h", "p", "a", "d">>
\* "Optical TouchPad": optical and touchpad.
OPTICAL_TOUCHPAD ==
    <<"O", "p", "t", "i", "c", "a", "l", " ", "T", "o", "u", "c", "h", "P", "a", "d">>
\* "usb-touchpad": usb and touchpad, all small.
USB_TOUCHPAD ==
    <<"u", "s", "b", "-", "t", "o", "u", "c", "h", "p", "a", "d">>
\* "USB2.0 Keyboard": usb, but not a pointer.
USB_KEYBOARD ==
    <<"U", "S", "B", "2", ".", "0", " ", "K", "e", "y", "b", "o", "a", "r", "d">>
\* "Power Button": no keyword.
POWER_BUTTON ==
    <<"P", "o", "w", "e", "r", " ", "B", "u", "t", "t", "o", "n">>

DeviceNames ==
    { USB_MOUSE, OPTICALMOUSE, MOUSEPAD, ELAN_TOUCHPAD,
      OPTICAL_TOUCHPAD, USB_TOUCHPAD, USB_KEYBOARD, POWER_BUTTON }

Capitals ==
    <<"A", "B", "C", "D", "E", "F", "G", "H", "I", "J", "K", "L", "M",
      "N", "O", "P", "Q", "R", "S", "T", "U", "V", "W", "X", "Y", "Z">>
Smalls ==
    <<"a", "b", "c", "d", "e", "f", "g", "h", "i", "j", "k", "l", "m",
      "n", "o", "p", "q", "r", "s", "t", "u", "v", "w", "x", "y", "z">>

\* The lower case of every capital letter.
lower_table ==
    [c \in {Capitals[k] : k \in 1..Len(Capitals)} |->
        Smalls[CHOOSE k \in 1..Len(Capitals) : Capitals[k] = c]]

\* str.lower() of one character.
lower_char(c) == IF c \in DOMAIN lower_table THEN lower_table[c] ELSE c

\* name.lower()
lower(name) == [k \in 1..Len(name) |-> lower_char(name[k])]

\* word in n: word is a run of consecutive characters of n.
contains(n, word) ==
    \E k \in 1..(Len(n) - Len(word) + 1) :
        SubSeq(n, k, k + Len(word) - 1) = word

usb == <<"u", "s", "b">>
mouse == <<"m", "o", "u", "s", "e">>
optical == <<"o", "p", "t", "i", "c", "a", "l">>
touchpad == <<"t", "o", "u", "c", "h", "p", "a", "d">>

\* device_priority that tests for "mouse" before "usb".
device_priority_mouse_first(name) ==
    LET n == lower(name)
    IN  IF contains(n, mouse) THEN 2
        ELSE IF contains(n, usb) THEN 1
        ELSE IF contains(n, optical) THEN 3
        ELSE 100

device_priority(name) ==
    LET n == lower(name)
    IN  IF contains(n, usb) THEN 1
        ELSE IF contains(n, mouse) THEN 2
        ELSE IF contains(n, optical) THEN 3
        ELSE 100

\* The test of the list comprehension.
is_pointer(d) == contains(lower(d), mouse) \/ contains(lower(d), touchpad)

\* list.sort(key=device_priority): a stable sort, here by insertion of each
\* name behind the names of equal or lower key.
insert_by_priority(sorted, d) ==
    LET k == Cardinality({i \in 1..Len(sorted) :
                            device_priority(sorted[i]) <= device_priority(d)})
    IN  SubSeq(sorted, 1, k) \o <<d>> \o SubSeq(sorted, k + 1, Len(sorted))

RECURSIVE sort_by_priority(_)
sort_by_priority(ds) ==
    IF ds = <<>> THEN <<>>
    ELSE insert_by_priority(sort_by_priority(SubSeq(ds, 1, Len(ds) - 1)),
                            ds[Len(ds)])

\* What get_pointer_devices returns when xinput printed the lines devices.
sorted_pointer_devices(devices) == sort_by_priority(SelectSeq(devices, is_pointer))

DeviceLists == UNION {[1..n -> DeviceNames] : n \in 0..MaxDevices}

\* What xinput lists when an editor is started: two pointer devices behind
\* a name that is dropped, one pointer device, no pointer device, nothing.
SessionLists ==
    { <<POWER_BUTTON, ELAN_TOUCHPAD, USB_MOUSE>>,
      <<MOUSEPAD>>,
      <<USB_KEYBOARD>>,
      <<>> }

(***************************************************************************)
(* CurveEditor                                                             *)
(***************************************************************************)
\* preset_points with the cap honoured only together with the boost.
preset_points_coupled(win, boost, cap) ==
    IF win
    THEN WINDOWS_CURVE
    ELSE << <<Tenths(0), Tenths(0)>>,
            IF boost THEN <<Tenths(5), Tenths(15)>> ELSE <<Tenths(5), Tenths(5)>>,
            IF cap /\ boost THEN <<Tenths(10), Tenths(25)>>
                            ELSE <<Tenths(10), Tenths(10)>> >>

\* update_curve_from_options: the point list the flags select.
preset_points(win, boost, cap) ==
    IF win
    THEN WINDOWS_CURVE
    ELSE << <<Tenths(0), Tenths(0)>>,
            IF boost THEN <<Tenths(5), Tenths(15)>> ELSE <<Tenths(5), Tenths(5)>>,
            IF cap THEN <<Tenths(10), Tenths(25)>> ELSE <<Tenths(10), Tenths(10)>> >>

(***************************************************************************)
(* auto_apply_xinput.  An xinput invocation is recorded as the command, the *)
(* device and the property it names and its value arguments; a value       *)
(* argument is kept in hundredths, which is what the two-decimal           *)
(* formatting leaves of it.                                                *)
(* The device's answers are the environment of one application: the        *)
(* property names the query prints, which invocation fails (0: none), and  *)
(* what subprocess.run raises for it.                                      *)
(***************************************************************************)
MOTION_POINTS == "libinput Accel Custom Motion Points"
MOTION_STEP == "libinput Accel Custom Motion Step"
PROFILE_ENABLED == "libinput Accel Profile Enabled"

RequiredProps == {MOTION_POINTS, PROFILE_ENABLED}

\* f"{v:.2f}" of a function coordinate, in hundredths (no coordinate is
\* half way between two hundredths).
fmt2(v) == (200 * v + Unit) \div (2 * Unit)

y_values(pts) == [k \in 1..Len(pts) |-> fmt2(pts[k][2])]

Invocation(cmd, device, prop, args) ==
    [cmd |-> cmd, device |-> device, prop |-> prop, args |-> args]

list_props(device_name) == Invocation("list-props", device_name, "", <<>>)

\* The three set-prop invocations, in the order of the source.
set_props(pts, device_name) ==
    << Invocation("set-prop", device_name, MOTION_POINTS, y_values(pts)),
       Invocation("set-prop", device_name, MOTION_STEP, <<100>>),
       Invocation("set-prop", device_name, PROFILE_ENABLED, <<0, 0, 100>>) >>

\* The test that guards the three set-prop invocations.
supported(props) == MOTION_POINTS \in props /\ PROFILE_ENABLED \in props

\* The answers of a device on Linux.  The error matters only when an
\* invocation fails, and nothing follows the query of a device that lacks
\* a required property.
DeviceAnswers ==
    {env \in [props : SUBSET RequiredProps, failing : 0..4,
              error : {"CalledProcessError", "OSError"}] :
        /\ env.failing = 0 => env.error = "CalledProcessError"
        /\ ~supported(env.props) => env.failing = 0}

\* auto_apply_xinput returns at once on another platform: the properties
\* of the device are asked for on Linux only.
Environments ==
    IF platform = "Linux"
    THEN DeviceAnswers
    ELSE {[props |-> {}, failing |-> 0, error |-> "CalledProcessError"]}

\* The state of the device interface when nothing has been applied.
NotApplied ==
    [calls |-> <<>>, props |-> {}, failed |-> FALSE, reported |-> "",
     raised |-> FALSE]

\* One run of auto_apply_xinput: the invocations issued, the property names
\* read from the query, whether an invocation failed, the error printed, and
\* whether an exception leaves the function.
auto_apply_xinput(pts, plat, env, device_name) ==
    IF plat # "Linux" THEN NotApplied
    ELSE IF env.failing = 1
    THEN [calls |-> <<list_props(device_name)>>, props |-> {}, failed |-> TRUE,
          reported |-> IF env.error = "CalledProcessError"
                       THEN "Could not apply xinput settings" ELSE "",
          raised |-> env.error # "CalledProcessError"]
    ELSE IF ~supported(env.props)
    THEN [calls |-> <<list_props(device_name)>>, props |-> env.props,
          failed |-> FALSE,
          reported |-> "The required properties are not supported",
          raised |-> FALSE]
    ELSE IF env.failing = 0
    THEN [calls |-> <<list_props(device_name)>> \o set_props(pts, device_name),
          props |-> env.props, failed |-> FALSE, reported |-> "",
          raised |-> FALSE]
    ELSE [calls |-> <<list_props(device_name)>>
                      \o SubSeq(set_props(pts, device_name), 1, env.failing - 1),
          props |-> env.props, failed |-> TRUE,
          reported |-> IF env.error = "CalledProcessError"
                       THEN "Could not apply xinput settings" ELSE "",
          raised |-> env.error # "CalledProcessError"]

\* The editor's own fields after __init__.
EditorFields ==
    /\ use_windows_curve = FALSE
    /\ enable_nonlinear_boost = FALSE
    /\ enable_acceleration_cap = FALSE
    /\ lock_low_speed = TRUE
    /\ selected_indices = {}
    /\ points = preset_points(FALSE, FALSE, FALSE)
    /\ drag_data = [point_index |-> None, offset_x |-> 0, offset_y |-> 0]
    /\ last = Event("init", NoPos, FALSE, FALSE)
    /\ steps = 0

\* What get_pointer_devices has returned: the sorted pointer devices of the
\* list xinput printed or, when xinput could not be run or failed, the empty
\* list.
Enumerated ==
    \/ /\ enum_pc = "returned"
       /\ pointer_devices = sorted_pointer_devices(xinput_list)
    \/ /\ enum_pc = "error"
       /\ pointer_devices = <<>>

\* __init__ calls get_pointer_devices on every platform, makes the first
\* device the selected one and builds the drop-down from the list:
\* tk.OptionMenu(options_frame, self.device_name_var, *available_devices)
\* raises TypeError for an empty list, which leaves no editor.  It ends with
\* update_curve_from_options, which applies the default curve; an exception
\* there leaves no editor either.
EditorInit ==
    /\ EditorFields
    /\ platform \in {"Linux", "Other"}
    /\ xinput_list \in SessionLists
    /\ Enumerated
    /\ pointer_devices # <<>>
    /\ device_name_var = pointer_devices[1]
    /\ \E env \in Environments :
          /\ xinput = auto_apply_xinput(preset_points(FALSE, FALSE, FALSE),
                                        platform, env, device_name_var)
          /\ ~xinput.raised

\* No device name, for a program that has no drop-down.
NoDevice == <<>>

\* The editor is not running.
EditorIdle ==
    /\ EditorFields
    /\ platform = "Other"
    /\ xinput = NotApplied
    /\ device_name_var = NoDevice

\* The number of events of a session.
Budget == IF platform = "Linux" THEN MaxStepsLinux ELSE MaxSteps

DecoderIdle ==
    /\ smooth_mouse_x_curve = <<>>
    /\ smooth_mouse_y_curve = <<>>
    /\ x_points = <<>>
    /\ y_points = <<>>
    /\ coordinates = <<>>
    /\ pc = "idle"

\* get_pointer_devices has not been called.
EnumerationIdle ==
    /\ xinput_list = <<>>
    /\ pointer_devices = <<>>
    /\ enum_pc = "idle"

Init == EditorInit /\ DecoderIdle

\* cleared_selection that keeps the selection.
cleared_selection_kept(sel) == sel

\* self.selected_indices.clear()
cleared_selection(sel) == {}

\* update_curve_from_options after a checkbox has changed the flags.
update_curve_from_options(win, boost, cap, op) ==
    /\ steps < Budget
    /\ UNCHANGED <<decoderVars, enumVars>>
    /\ use_windows_curve' = win
    /\ enable_nonlinear_boost' = boost
    /\ enable_acceleration_cap' = cap
    /\ selected_indices' = cleared_selection(selected_indices)
    /\ points' = preset_points(win, boost, cap)
    /\ \E env \in Environments :
          /\ xinput' = auto_apply_xinput(points', platform, env,
                                            device_name_var)
          /\ last' = Event(op, NoPos, FALSE, xinput'.raised)
    /\ steps' = steps + 1
    /\ UNCHANGED <<drag_data, lock_low_speed, platform, device_name_var>>

toggle_windows ==
    update_curve_from_options(~use_windows_curve, enable_nonlinear_boost,
                              enable_acceleration_cap, "toggle_windows")

toggle_boost ==
    update_curve_from_options(use_windows_curve, ~enable_nonlinear_boost,
                              enable_acceleration_cap, "toggle_boost")

toggle_cap ==
    update_curve_from_options(use_windows_curve, enable_nonlinear_boost,
                              ~enable_acceleration_cap, "toggle_cap")

\* The lock checkbox has no command: only the flag changes.
toggle_lock ==
    /\ steps < Budget
    /\ UNCHANGED <<decoderVars, enumVars>>
    /\ lock_low_speed' = ~lock_low_speed
    /\ last' = Event("toggle_lock", NoPos, FALSE, FALSE)
    /\ steps' = steps + 1
    /\ UNCHANGED <<points, selected_indices, drag_data, use_windows_curve,
                   enable_nonlinear_boost, enable_acceleration_cap,
                   platform, xinput, device_name_var>>

\* The drop-down is bound to device_name_var and has no command: choosing
\* an entry only changes the selected device.
select_device(d) ==
    /\ steps < Budget
    /\ UNCHANGED <<decoderVars, enumVars>>
    /\ device_name_var' = d
    /\ last' = Event("select_device", NoPos, FALSE, FALSE)
    /\ steps' = steps + 1
    /\ UNCHANGED <<points, selected_indices, drag_data, use_windows_curve,
                   enable_nonlinear_boost, enable_acceleration_cap,
                   lock_low_speed, platform, xinput>>

\* increased without the clamp at Y_MAX.
increased_unclamped(pt) == <<pt[1], pt[2] + DELTA_Y>>

\* The loop body of increase_all_points for one point.
increased(pt) == <<pt[1], min(Y_MAX, pt[2] + DELTA_Y)>>

\* The loop body of decrease_all_points for one point.
decreased(pt) == <<pt[1], max(Y_MIN, pt[2] - DELTA_Y)>>

\* skipped without the lock test.
skipped_never(i, lock) == FALSE

\* The loop guard of both: the locked low point is skipped.
skipped(i, lock) == i = 0 /\ lock

\* visited that reaches every point, selected or not.
visited_all(pts, sel, lock) == 0..(Len(pts) - 1)

\* The indices the loop reaches: a set of small integers is iterated in
\* ascending order, and points[i] raises IndexError at the first index
\* that is not in the list.
visited(pts, sel, lock) ==
    {i \in sel : \A j \in sel : (j <= i /\ ~skipped(j, lock)) => j < Len(pts)}

out_of_range(pts, sel, lock) ==
    \E i \in sel : ~skipped(i, lock) /\ i >= Len(pts)

increase_all_points ==
    /\ steps < Budget
    /\ UNCHANGED <<decoderVars, enumVars>>
    /\ points' = [k \in 1..Len(points) |->
                    IF (k - 1) \in visited(points, selected_indices, lock_low_speed)
                       /\ ~skipped(k - 1, lock_low_speed)
                    THEN increased(points[k])
                    ELSE points[k]]
    /\ IF out_of_range(points, selected_indices, lock_low_speed)
       THEN \* IndexError in the loop: draw_curve is not reached
            /\ last' = Event("increase", NoPos, FALSE, TRUE)
            /\ UNCHANGED xinput
       ELSE \E env \in Environments :
              /\ xinput' = auto_apply_xinput(points', platform, env,
                                            device_name_var)
              /\ last' = Event("increase", NoPos, FALSE, xinput'.raised)
    /\ steps' = steps + 1
    /\ UNCHANGED <<selected_indices, drag_data, use_windows_curve,
                   enable_nonlinear_boost, enable_acceleration_cap,
                   lock_low_speed, platform, device_name_var>>

decrease_all_points ==
    /\ steps < Budget
    /\ UNCHANGED <<decoderVars, enumVars>>
    /\ points' = [k \in 1..Len(points) |->
                    IF (k - 1) \in visited(points, selected_indices, lock_low_speed)
                       /\ ~skipped(k - 1, lock_low_speed)
                    THEN decreased(points[k])
                    ELSE points[k]]
    /\ IF out_of_range(points, selected_indices, lock_low_speed)
       THEN \* IndexError in the loop: draw_curve is not reached
            /\ last' = Event("decrease", NoPos, FALSE, TRUE)
            /\ UNCHANGED xinput
       ELSE \E env \in Environments :
              /\ xinput' = auto_apply_xinput(points', platform, env,
                                            device_name_var)
              /\ last' = Event("decrease", NoPos, FALSE, xinput'.raised)
    /\ steps' = steps + 1
    /\ UNCHANGED <<selected_indices, drag_data, use_windows_curve,
                   enable_nonlinear_boost, enable_acceleration_cap,
                   lock_low_speed, platform, device_name_var>>

\* (cx - x) ** 2 + (cy - y) ** 2 in exact arithmetic, in units of
\* (1/Sub pixel)^2.
squared_distance(pt, x, y) ==
    LET c == to_canvas_coords(pt[1], pt[2])
    IN  (c[1] - Sub * x) * (c[1] - Sub * x) + (c[2] - Sub * y) * (c[2] - Sub * y)

\* POINT_RADIUS ** 2 in the same units.
squared_radius == Sub * Sub * POINT_RADIUS * POINT_RADIUS

\* The point is exactly POINT_RADIUS away from event pixel (x, y).
on_radius(pt, x, y) == squared_distance(pt, x, y) = squared_radius

\* The test of find_nearby_point for one point, at event pixel (x, y).  The
\* source computes the rendered position and the distance in binary floating
\* point.  Its answer is the answer of exact arithmetic except for a point
\* exactly POINT_RADIUS away: there the rounding errors in the point's
\* coordinates decide, and they depend on the operations that gave the point
\* its value (a point dragged to pixel (480, 97) is rendered at
\* y = 96.99999999999994 and is out of reach of a press at (480, 103)).
\* inward says that the computed distance of such a point is within the
\* radius.
within_radius(pt, x, y, inward) ==
    LET d == squared_distance(pt, x, y)
    IN  d < squared_radius \/ (d = squared_radius /\ inward)

\* The answers floating point can give for the points: the sets of indices,
\* among the points exactly POINT_RADIUS away, that are found in reach.
Roundings(pts, x, y) ==
    SUBSET {i \in 0..(Len(pts) - 1) : on_radius(Pt(pts, i), x, y)}

\* find_from that keeps scanning and returns the last point in reach.
RECURSIVE find_last_from(_, _, _, _, _)
find_last_from(pts, x, y, idx, inward) ==
    IF idx >= Len(pts) THEN None
    ELSE LET later == find_last_from(pts, x, y, idx + 1, inward)
         IN  IF later # None THEN later
             ELSE IF within_radius(Pt(pts, idx), x, y, idx \in inward) THEN idx
             ELSE None

\* The loop of find_nearby_point from index idx on; inward holds the indices
\* of the points exactly POINT_RADIUS away that the test finds in reach.
RECURSIVE find_from(_, _, _, _, _)
find_from(pts, x, y, idx, inward) ==
    IF idx >= Len(pts) THEN None
    ELSE IF within_radius(Pt(pts, idx), x, y, idx \in inward) THEN idx
    ELSE find_from(pts, x, y, idx + 1, inward)

find_nearby_point(pts, x, y, inward) == find_from(pts, x, y, 0, inward)

\* pressed_selection whose shift-click only ever adds.
pressed_selection_add_only(sel, idx, shift_pressed) ==
    IF shift_pressed THEN sel \cup {idx} ELSE {idx}

\* The selection on_press leaves for a press that hit idx.
pressed_selection(sel, idx, shift_pressed) ==
    IF shift_pressed
    THEN IF idx \in sel THEN sel \ {idx} ELSE sel \cup {idx}
    ELSE {idx}

\* missed_selection that keeps the selection.
missed_selection_kept(sel) == sel

\* The selection on_press leaves for a press that hit no point:
\* self.selected_indices.clear()
missed_selection(sel) == {}

on_press(e, shift_pressed) ==
    /\ steps < Budget
    /\ \E inward \in Roundings(points, e[1], e[2]) :
      LET idx == find_nearby_point(points, e[1], e[2], inward)
      IN  /\ UNCHANGED <<decoderVars, enumVars>>
          /\ steps' = steps + 1
          /\ UNCHANGED <<points, use_windows_curve, enable_nonlinear_boost,
                         enable_acceleration_cap, lock_low_speed, platform, device_name_var>>
          /\ IF idx = 0 /\ lock_low_speed
             THEN /\ UNCHANGED <<selected_indices, drag_data, xinput>>
                  /\ last' = [Event("press", e, shift_pressed, FALSE)
                                 EXCEPT !.inward = inward]
             ELSE /\ IF idx # None
                     THEN LET c == to_canvas_coords(Pt(points, idx)[1],
                                                    Pt(points, idx)[2])
                          IN  /\ selected_indices' =
                                    pressed_selection(selected_indices, idx,
                                                      shift_pressed)
                              /\ drag_data' = [point_index |-> idx,
                                               offset_x |-> c[1] - Sub * e[1],
                                               offset_y |-> c[2] - Sub * e[2]]
                     ELSE /\ selected_indices' = missed_selection(selected_indices)
                          /\ UNCHANGED drag_data
                  /\ \E env \in Environments :
                        /\ xinput' = auto_apply_xinput(points, platform, env,
                                              device_name_var)
                        /\ last' = [Event("press", e, shift_pressed,
                                          xinput'.raised)
                                       EXCEPT !.inward = inward]

\* dragged_point without the clamp against the neighbours' inputs.
dragged_point_no_neighbours(pts, idx, e, dd) ==
    LET f == to_function_coords(Sub * e[1] + dd.offset_x, Sub * e[2] + dd.offset_y)
    IN  <<max(X_MIN, min(X_MAX, f[1])), max(Y_MIN, min(Y_MAX, f[2]))>>

\* dragged_point without the clamp of the output at Y_MAX.
dragged_point_no_y_max(pts, idx, e, dd) ==
    LET f == to_function_coords(Sub * e[1] + dd.offset_x, Sub * e[2] + dd.offset_y)
        x1 == max(X_MIN, min(X_MAX, f[1]))
        x2 == IF idx > 0 /\ x1 < Pt(pts, idx - 1)[1]
              THEN Pt(pts, idx - 1)[1] ELSE x1
        new_x == IF idx < Len(pts) - 1 /\ x2 > Pt(pts, idx + 1)[1]
                 THEN Pt(pts, idx + 1)[1] ELSE x2
    IN  <<new_x, max(Y_MIN, f[2])>>

\* The pair on_drag computes for index idx from the event and the offsets.
dragged_point(pts, idx, e, dd) ==
    LET new_cx == Sub * e[1] + dd.offset_x
        new_cy == Sub * e[2] + dd.offset_y
        f == to_function_coords(new_cx, new_cy)
        x1 == max(X_MIN, min(X_MAX, f[1]))
        new_y == max(Y_MIN, min(Y_MAX, f[2]))
        x2 == IF idx > 0 /\ x1 < Pt(pts, idx - 1)[1]
              THEN Pt(pts, idx - 1)[1] ELSE x1
        new_x == IF idx < Len(pts) - 1 /\ x2 > Pt(pts, idx + 1)[1]
                 THEN Pt(pts, idx + 1)[1] ELSE x2
    IN  <<new_x, new_y>>

\* replaced that inserts the new pair in front of the old one.
replaced_by_insert(pts, idx, pt) ==
    SubSeq(pts, 1, idx) \o <<pt>> \o SubSeq(pts, idx + 1, Len(pts))

\* self.points[idx] = [new_x, new_y]
replaced(pts, idx, pt) == [pts EXCEPT ![idx + 1] = pt]

on_drag(e) ==
    LET idx == drag_data.point_index
    IN  /\ steps < Budget
        /\ UNCHANGED <<decoderVars, enumVars>>
        /\ steps' = steps + 1
        /\ UNCHANGED <<selected_indices, drag_data, use_windows_curve,
                       enable_nonlinear_boost, enable_acceleration_cap,
                       lock_low_speed, platform, device_name_var>>
        /\ IF idx = None \/ (idx = 0 /\ lock_low_speed)
           THEN /\ UNCHANGED <<points, xinput>>
                /\ last' = Event("drag", e, FALSE, FALSE)
           ELSE IF idx >= Len(points)
           THEN \* self.points[idx] = ... raises IndexError
                /\ UNCHANGED <<points, xinput>>
                /\ last' = Event("drag", e, FALSE, TRUE)
           ELSE /\ points' = replaced(points, idx,
                                      dragged_point(points, idx, e, drag_data))
                /\ \E env \in Environments :
                      /\ xinput' = auto_apply_xinput(points', platform, env,
                                            device_name_var)
                      /\ last' = Event("drag", e, FALSE, xinput'.raised)

\* released that keeps the drag target.
released_kept(dd) == dd

\* self.drag_data["point_index"] = None
released(dd) == [dd EXCEPT !.point_index = None]

on_release ==
    /\ steps < Budget
    /\ UNCHANGED <<decoderVars, enumVars>>
    /\ drag_data' = released(drag_data)
    /\ last' = Event("release", NoPos, FALSE, FALSE)
    /\ steps' = steps + 1
    /\ UNCHANGED <<points, selected_indices, use_windows_curve,
                   enable_nonlinear_boost, enable_acceleration_cap,
                   lock_low_speed, platform, xinput, device_name_var>>

Next ==
    \/ toggle_windows
    \/ toggle_boost
    \/ toggle_cap
    \/ toggle_lock
    \/ \E k \in 1..Len(pointer_devices) : select_device(pointer_devices[k])
    \/ increase_all_points
    \/ decrease_all_points
    \/ \E e \in EventPositions, s \in BOOLEAN : on_press(e, s)
    \/ \E e \in EventPositions : on_drag(e)
    \/ on_release

Spec == Init /\ [][Next]_vars

(***************************************************************************)
(* simulator.py: the editor without margin, selection, lock and device     *)
(* list.  Its function coordinates are kept as integer multiples of        *)
(* 1/CANVAS_WIDTH, so 0.5 is 250 and 3.0 is 1500; canvas coordinates are    *)
(* multiples of 1/Sub pixel as above.  The fields this editor does not     *)
(* have (selected_indices, lock_low_speed) keep their initial values.      *)
(***************************************************************************)
simulator_Unit == CANVAS_WIDTH

simulator_Tenths(n) == (n * simulator_Unit) \div 10

simulator_X_MIN == simulator_Tenths(0)
simulator_X_MAX == simulator_Tenths(10)
simulator_Y_MIN == simulator_Tenths(0)
simulator_Y_MAX == simulator_Tenths(30)

\* The device every invocation names.
DEVICE_NAME == "YOUR_DEVICE_NAME_HERE"

simulator_WINDOWS_CURVE ==
    << <<simulator_Tenths(0), simulator_Tenths(0)>>,
       <<simulator_Tenths(3), simulator_Tenths(3)>>,
       <<simulator_Tenths(6), simulator_Tenths(12)>>,
       <<simulator_Tenths(10), simulator_Tenths(25)>> >>

simulator_to_canvas_coords(x, y) ==
    << ((x - simulator_X_MIN) * Sub * CANVAS_WIDTH)
           \div (simulator_X_MAX - simulator_X_MIN),
       Sub * CANVAS_HEIGHT
         - ((y - simulator_Y_MIN) * Sub * CANVAS_HEIGHT)
               \div (simulator_Y_MAX - simulator_Y_MIN) >>

simulator_to_function_coords(canvas_x, canvas_y) ==
    << (canvas_x * (simulator_X_MAX - simulator_X_MIN)) \div (Sub * CANVAS_WIDTH)
           + simulator_X_MIN,
       ((Sub * CANVAS_HEIGHT - canvas_y) * (simulator_Y_MAX - simulator_Y_MIN))
           \div (Sub * CANVAS_HEIGHT) + simulator_Y_MIN >>

simulator_EventPositions ==
    { <<0, 500>>,     \* low point of every preset
      <<250, 417>>,   \* mid point of the default preset (y = 416.67)
      <<150, 450>>,   \* Windows point 1
      <<300, 300>>,   \* Windows point 2
      <<500, 83>>,    \* high point with the cap, Windows point 3 (y = 83.33)
      <<400, 19>>,    \* near the top of the output range
      <<400, 25>>,    \* exactly POINT_RADIUS below the one before
      <<520, -10>> }  \* outside the canvas

simulator_preset_points(win, boost, cap) ==
    IF win
    THEN simulator_WINDOWS_CURVE
    ELSE << <<simulator_Tenths(0), simulator_Tenths(0)>>,
            IF boost THEN <<simulator_Tenths(5), simulator_Tenths(15)>>
                     ELSE <<simulator_Tenths(5), simulator_Tenths(5)>>,
            IF cap THEN <<simulator_Tenths(10), simulator_Tenths(25)>>
                   ELSE <<simulator_Tenths(10), simulator_Tenths(10)>> >>

\* f"{v:.2f}" of a function coordinate, in hundredths.
simulator_fmt2(v) == (200 * v + simulator_Unit) \div (2 * simulator_Unit)

simulator_y_values(pts) == [k \in 1..Len(pts) |-> simulator_fmt2(pts[k][2])]

\* The three set-prop invocations, in the order of the source: the second
\* names the motion points again.
simulator_set_props(pts) ==
    << Invocation("set-prop", DEVICE_NAME, MOTION_POINTS, simulator_y_values(pts)),
       Invocation("set-prop", DEVICE_NAME, MOTION_POINTS, <<100>>),
       Invocation("set-prop", DEVICE_NAME, PROFILE_ENABLED, <<0, 0, 100>>) >>

\* The answers of the device: no query is made, so no property names are
\* read.
simulator_Environments ==
    IF platform = "Linux"
    THEN {env \in [props : {{}}, failing : 0..3,
                   error : {"CalledProcessError", "OSError"}] :
             env.failing = 0 => env.error = "CalledProcessError"}
    ELSE {[props |-> {}, failing |-> 0, error |-> "CalledProcessError"]}

simulator_auto_apply_xinput(pts, plat, env) ==
    IF plat # "Linux" THEN NotApplied
    ELSE IF env.failing = 0
    THEN [calls |-> simulator_set_props(pts), props |-> {}, failed |-> FALSE,
          reported |-> "", raised |-> FALSE]
    ELSE [calls |-> SubSeq(simulator_set_props(pts), 1, env.failing),
          props |-> {}, failed |-> TRUE,
          reported |-> IF env.error = "CalledProcessError"
                       THEN "Could not apply xinput settings" ELSE "",
          raised |-> env.error # "CalledProcessError"]

SimulatorInit ==
    /\ use_windows_curve = FALSE
    /\ enable_nonlinear_boost = FALSE
    /\ enable_acceleration_cap = FALSE
    /\ lock_low_speed = FALSE
    /\ selected_indices = {}
    /\ points = simulator_preset_points(FALSE, FALSE, FALSE)
    /\ drag_data = [point_index |-> None, offset_x |-> 0, offset_y |-> 0]
    /\ last = Event("init", NoPos, FALSE, FALSE)
    /\ steps = 0
    /\ platform \in {"Linux", "Other"}
    /\ device_name_var = NoDevice
    /\ \E env \in simulator_Environments :
          /\ xinput = simulator_auto_apply_xinput(points, platform, env)
          /\ ~xinput.raised
    /\ DecoderIdle
    /\ EnumerationIdle

simulator_update_curve_from_options(win, boost, cap, op) ==
    /\ steps < Budget
    /\ UNCHANGED <<decoderVars, enumVars>>
    /\ use_windows_curve' = win
    /\ enable_nonlinear_boost' = boost
    /\ enable_acceleration_cap' = cap
    /\ points' = simulator_preset_points(win, boost, cap)
    /\ \E env \in simulator_Environments :
          /\ xinput' = simulator_auto_apply_xinput(points', platform, env)
          /\ last' = Event(op, NoPos, FALSE, xinput'.raised)
    /\ steps' = steps + 1
    /\ UNCHANGED <<selected_indices, drag_data, lock_low_speed, platform, device_name_var>>

simulator_toggle_windows ==
    simulator_update_curve_from_options(~use_windows_curve,
        enable_nonlinear_boost, enable_acceleration_cap, "toggle_windows")

simulator_toggle_boost ==
    simulator_update_curve_from_options(use_windows_curve,
        ~enable_nonlinear_boost, enable_acceleration_cap, "toggle_boost")

simulator_toggle_cap ==
    simulator_update_curve_from_options(use_windows_curve,
        enable_nonlinear_boost, ~enable_acceleration_cap, "toggle_cap")

simulator_squared_distance(pt, x, y) ==
    LET c == simulator_to_canvas_coords(pt[1], pt[2])
    IN  (c[1] - Sub * x) * (c[1] - Sub * x) + (c[2] - Sub * y) * (c[2] - Sub * y)

simulator_on_radius(pt, x, y) ==
    simulator_squared_distance(pt, x, y) = squared_radius

\* The test of find_nearby_point for one point; as in simulator2.py, floating
\* point decides for a point exactly POINT_RADIUS away (a point dragged to
\* pixel (400, 19) is rendered at y = 19.000000000000057 and is out of reach
\* of a press at (400, 25)).
simulator_within_radius(pt, x, y, inward) ==
    LET d == simulator_squared_distance(pt, x, y)
    IN  d < squared_radius \/ (d = squared_radius /\ inward)

simulator_Roundings(pts, x, y) ==
    SUBSET {i \in 0..(Len(pts) - 1) : simulator_on_radius(Pt(pts, i), x, y)}

RECURSIVE simulator_find_from(_, _, _, _, _)
simulator_find_from(pts, x, y, idx, inward) ==
    IF idx >= Len(pts) THEN None
    ELSE IF simulator_within_radius(Pt(pts, idx), x, y, idx \in inward) THEN idx
    ELSE simulator_find_from(pts, x, y, idx + 1, inward)

simulator_find_nearby_point(pts, x, y, inward) ==
    simulator_find_from(pts, x, y, 0, inward)

\* on_press only records the drag target; nothing is redrawn or applied.
simulator_on_press(e) ==
    /\ steps < Budget
    /\ \E inward \in simulator_Roundings(points, e[1], e[2]) :
      LET idx == simulator_find_nearby_point(points, e[1], e[2], inward)
      IN  /\ UNCHANGED <<decoderVars, enumVars>>
          /\ last' = [Event("press", e, FALSE, FALSE) EXCEPT !.inward = inward]
          /\ steps' = steps + 1
          /\ UNCHANGED <<points, selected_indices, use_windows_curve,
                         enable_nonlinear_boost, enable_acceleration_cap,
                         lock_low_speed, platform, xinput, device_name_var>>
          /\ IF idx # None
             THEN LET c == simulator_to_canvas_coords(Pt(points, idx)[1],
                                                      Pt(points, idx)[2])
                  IN  drag_data' = [point_index |-> idx,
                                    offset_x |-> c[1] - Sub * e[1],
                                    offset_y |-> c[2] - Sub * e[2]]
             ELSE UNCHANGED drag_data

simulator_dragged_point(pts, idx, e, dd) ==
    LET new_cx == Sub * e[1] + dd.offset_x
        new_cy == Sub * e[2] + dd.offset_y
        f == simulator_to_function_coords(new_cx, new_cy)
        x1 == max(simulator_X_MIN, min(simulator_X_MAX, f[1]))
        new_y == max(simulator_Y_MIN, min(simulator_Y_MAX, f[2]))
        x2 == IF idx > 0 /\ x1 < Pt(pts, idx - 1)[1]
              THEN Pt(pts, idx - 1)[1] ELSE x1
        new_x == IF idx < Len(pts) - 1 /\ x2 > Pt(pts, idx + 1)[1]
                 THEN Pt(pts, idx + 1)[1] ELSE x2
    IN  <<new_x, new_y>>

simulator_on_drag(e) ==
    LET idx == drag_data.point_index
    IN  /\ steps < Budget
        /\ UNCHANGED <<decoderVars, enumVars>>
        /\ steps' = steps + 1
        /\ UNCHANGED <<selected_indices, drag_data, use_windows_curve,
                       enable_nonlinear_boost, enable_acceleration_cap,
                       lock_low_speed, platform, device_name_var>>
        /\ IF idx = None
           THEN /\ UNCHANGED <<points, xinput>>
                /\ last' = Event("drag", e, FALSE, FALSE)
           ELSE IF idx >= Len(points)
           THEN \* self.points[idx] = ... raises IndexError
                /\ UNCHANGED <<points, xinput>>
                /\ last' = Event("drag", e, FALSE, TRUE)
           ELSE /\ points' = [points EXCEPT ![idx + 1] =
                                 simulator_dragged_point(points, idx, e, drag_data)]
                /\ \E env \in simulator_Environments :
                      /\ xinput' = simulator_auto_apply_xinput(points', platform,
                                                               env)
                      /\ last' = Event("drag", e, FALSE, xinput'.raised)

simulator_on_release ==
    /\ steps < Budget
    /\ UNCHANGED <<decoderVars, enumVars>>
    /\ drag_data' = [drag_data EXCEPT !.point_index = None]
    /\ last' = Event("release", NoPos, FALSE, FALSE)
    /\ steps' = steps + 1
    /\ UNCHANGED <<points, selected_indices, use_windows_curve,
                   enable_nonlinear_boost, enable_acceleration_cap,
                   lock_low_speed, platform, xinput, device_name_var>>

SimulatorNext ==
    \/ simulator_toggle_windows
    \/ simulator_toggle_boost
    \/ simulator_toggle_cap
    \/ \E e \in simulator_EventPositions : simulator_on_press(e)
    \/ \E e \in simulator_EventPositions : simulator_on_drag(e)
    \/ simulator_on_release

SpecSimulator == SimulatorInit /\ [][SimulatorNext]_vars

(***************************************************************************)
(* mouse.py: the decoder and the module-level program that applies it to   *)
(* the X table and the Y table and pairs the results.                      *)
(***************************************************************************)
\* The denominator of the fractional part.
FRAC_DIVISOR == 65536

\* Python's s[a:b] for 0 <= a <= b: the slice is cut at the end of s.
Slice(s, a, b) == SubSeq(s, a + 1, min(b, Len(s)))

RECURSIVE pow256(_)
pow256(n) == IF n = 0 THEN 1 ELSE 256 * pow256(n - 1)

RECURSIVE little_endian(_)
little_endian(bs) ==
    IF bs = <<>> THEN 0 ELSE Head(bs) + 256 * little_endian(Tail(bs))

RECURSIVE big_endian(_)
big_endian(bs) ==
    IF bs = <<>> THEN 0
    ELSE Head(bs) * pow256(Len(bs) - 1) + big_endian(Tail(bs))

\* from_bytes with byteorder='big'.
from_bytes_big(bs, signed) ==
    IF signed /\ Len(bs) > 0 /\ bs[1] >= 128
    THEN big_endian(bs) - pow256(Len(bs))
    ELSE big_endian(bs)

\* int.from_bytes(bs, byteorder='little', signed=signed)
from_bytes(bs, signed) ==
    IF signed /\ Len(bs) > 0 /\ bs[Len(bs)] >= 128
    THEN little_endian(bs) - pow256(Len(bs))
    ELSE little_endian(bs)

\* integer_part that reads bytes 3-4 instead of bytes 2-3.
integer_part_shifted(hex_chunk) == from_bytes(Slice(hex_chunk, 3, 5), TRUE)

integer_part(hex_chunk) == from_bytes(Slice(hex_chunk, 2, 4), TRUE)

\* The numerator of fractional_part, which is this over FRAC_DIVISOR.
fractional_part(hex_chunk) == from_bytes(Slice(hex_chunk, 0, 2), FALSE)

decimal_value(hex_chunk) ==
    integer_part(hex_chunk) * FRAC_DIVISOR + fractional_part(hex_chunk)

RECURSIVE decode_from(_, _)
decode_from(hex_values, i) ==
    IF i >= Len(hex_values) THEN <<>>
    ELSE <<decimal_value(Slice(hex_values, i, i + 8))>>
           \o decode_from(hex_values, i + 8)

hex_to_decimal(hex_values) == decode_from(hex_values, 0)

\* list(zip(xs, ys)): as long as the shorter of the two.
zip(xs, ys) == [k \in 1..min(Len(xs), Len(ys)) |-> <<xs[k], ys[k]>>]

(***************************************************************************)
(* Inputs: byte tables made of whole records and an optional partial one.  *)
(***************************************************************************)
Records ==
    { <<0, 0, 0, 0, 0, 0, 0, 0>>,               \* 0
      <<21, 110, 0, 0, 0, 0, 0, 0>>,            \* 15 6e 00 00
      <<0, 64, 1, 0, 0, 0, 0, 0>>,              \* 00 40 01 00
      <<41, 220, 3, 0, 1, 0, 0, 128>>,          \* 29 dc 03 00, padding set
      <<0, 0, 255, 255, 0, 0, 0, 0>>,           \* integer part -1
      <<255, 255, 0, 128, 255, 255, 255, 255>> } \* integer part -32768

\* Records of the Y table.
RecordsY ==
    { <<0, 0, 0, 0, 0, 0, 0, 0>>,               \* 0
      <<253, 17, 1, 0, 0, 0, 0, 0>>,            \* fd 11 01 00
      <<192, 187, 1, 0, 0, 0, 0, 0>> }          \* c0 bb 01 00

Tails == { <<>>, <<21, 110, 128>> }

ByteValues == {0, 1, 64, 128, 255}

RECURSIVE Flatten(_)
Flatten(rs) == IF rs = <<>> THEN <<>> ELSE Head(rs) \o Flatten(Tail(rs))

Tables(R, n) ==
    { Flatten(rs) \o t : rs \in UNION {[1..k -> R] : k \in 0..n},
                         t \in Tails }

DecodeInit ==
    /\ EditorIdle
    /\ smooth_mouse_x_curve \in Tables(Records, MaxRecords)
    /\ smooth_mouse_y_curve \in Tables(RecordsY, MaxRecordsY)
    /\ x_points = <<>>
    /\ y_points = <<>>
    /\ coordinates = <<>>
    /\ pc = "start"
    /\ EnumerationIdle

decode_x ==
    /\ pc = "start"
    /\ UNCHANGED <<editorVars, enumVars>>
    /\ x_points' = hex_to_decimal(smooth_mouse_x_curve)
    /\ pc' = "x_done"
    /\ UNCHANGED <<smooth_mouse_x_curve, smooth_mouse_y_curve, y_points,
                   coordinates>>

decode_y ==
    /\ pc = "x_done"
    /\ UNCHANGED <<editorVars, enumVars>>
    /\ y_points' = hex_to_decimal(smooth_mouse_y_curve)
    /\ pc' = "y_done"
    /\ UNCHANGED <<smooth_mouse_x_curve, smooth_mouse_y_curve, x_points,
                   coordinates>>

zip_points ==
    /\ pc = "y_done"
    /\ UNCHANGED <<editorVars, enumVars>>
    /\ coordinates' = zip(x_points, y_points)
    /\ pc' = "zipped"
    /\ UNCHANGED <<smooth_mouse_x_curve, smooth_mouse_y_curve, x_points,
                   y_points>>

DecodeNext == decode_x \/ decode_y \/ zip_points

SpecDecode == DecodeInit /\ [][DecodeNext]_vars

(***************************************************************************)
(* get_pointer_devices as a program of its own: xinput prints a list of    *)
(* names, or fails.                                                        *)
(***************************************************************************)
DevicesInit ==
    /\ EditorIdle
    /\ DecoderIdle
    /\ xinput_list \in DeviceLists
    /\ pointer_devices = <<>>
    /\ enum_pc = "start"

\* xinput list --name-only printed xinput_list.
get_pointer_devices ==
    /\ enum_pc = "start"
    /\ pointer_devices' = sorted_pointer_devices(xinput_list)
    /\ enum_pc' = "returned"
    /\ UNCHANGED <<xinput_list, editorVars, decoderVars>>

\* xinput list --name-only raised: the error is printed and the list is
\* empty.
get_pointer_devices_error ==
    /\ enum_pc = "start"
    /\ pointer_devices' = <<>>
    /\ enum_pc' = "error"
    /\ UNCHANGED <<xinput_list, editorVars, decoderVars>>

DevicesNext ==
    \/ get_pointer_devices
    \/ get_pointer_devices_error

SpecDevices == DevicesInit /\ [][DevicesNext]_vars

(***************************************************************************)
(* Properties of the curve editor, checked under Spec.                     *)
(***************************************************************************)
Indices(pts) == 0..(Len(pts) - 1)

PresetOps == {"toggle_windows", "toggle_boost", "toggle_cap"}

\* The canvas position, in 1/Sub pixel, that on_drag computes from the
\* event recorded in ev and the offsets dd.
Proposed(ev, dd) ==
    to_function_coords(Sub * ev.x + dd.offset_x, Sub * ev.y + dd.offset_y)

\* A drag event that reaches the write of on_drag: there is a drag target,
\* it is not the locked low point, and it is an index of the list.
DragWrites(idx, lock, pts) ==
    idx # None /\ ~(idx = 0 /\ lock) /\ idx \in Indices(pts)

\* C1: in every reachable state the inputs of the control points are
\* non-decreasing across every adjacent pair, every input lies in
\* [X_MIN, X_MAX] = [0, 1] and every output in [Y_MIN, Y_MAX] = [0, 3].
C1_OrderedAndBounded ==
    /\ \A k \in 1..(Len(points) - 1) : points[k][1] <= points[k + 1][1]
    /\ \A k \in 1..Len(points) :
          /\ 0 <= points[k][1] /\ points[k][1] <= 1 * Unit
          /\ 0 <= points[k][2] /\ points[k][2] <= 3 * Unit

\* A drag has just moved an inner point whose proposed input was above the
\* next point's input, and the point was stopped at the next point's input.
C1_Witness ==
    /\ last.op = "drag" /\ ~last.raised
    /\ \E i \in Indices(points) :
          /\ i = drag_data.point_index
          /\ i > 0 /\ i < Len(points) - 1
          /\ Proposed(last, drag_data)[1] > Pt(points, i + 1)[1]
          /\ Pt(points, i + 1)[1] < X_MAX
          /\ Pt(points, i)[1] = Pt(points, i + 1)[1]

\* C2: while the lock flag is on, no drag event and no increase or decrease
\* changes control point 0, whatever the selection and the drag target are.
C2_LockedPointNeverMoves ==
    [][(lock_low_speed /\ last'.op \in {"drag", "increase", "decrease"})
          => Pt(points', 0) = Pt(points, 0)]_vars

\* Point 0 was selected and grabbed while the lock was off, the lock was
\* switched on, and then a drag or an increase or decrease arrived.
C2_Witness ==
    /\ lock_low_speed
    /\ last.op \in {"drag", "increase", "decrease"}
    /\ 0 \in selected_indices
    /\ drag_data.point_index = 0

\* C3: after a toggle of the Windows, boost or cap flag the points are
\* exactly (0,0),(0.3,0.3),(0.6,1.2),(1,2.5) when the Windows flag is on,
\* whatever boost and cap are, and otherwise (0,0),(0.5,m),(1,h) with m = 1.5
\* if boost is on else 0.5 and h = 2.5 if cap is on else 1.0.
C3_PresetPoints ==
    last.op \in PresetOps =>
        IF use_windows_curve
        THEN points = << <<0, 0>>, <<138, 138>>, <<276, 552>>, <<460, 1150>> >>
        ELSE points = << <<0, 0>>,
                         <<230, IF enable_nonlinear_boost THEN 690 ELSE 230>>,
                         <<460, IF enable_acceleration_cap THEN 1150 ELSE 460>> >>

\* The 3-point preset has just been rebuilt with the cap on and the boost
\* off, after a press had grabbed a point.
C3_Witness ==
    /\ last.op \in PresetOps
    /\ ~use_windows_curve /\ ~enable_nonlinear_boost /\ enable_acceleration_cap
    /\ drag_data.point_index # None

\* C4: an increase sets the output of every selected index that the lock does
\* not exclude to min(Y_MAX, output + 0.1) and a decrease to
\* max(Y_MIN, output - 0.1); +0.1 on index 1 of (0,0),(0.5,0.5),(1,1) gives 0.6;
\* an increase raises the output of such a point unless it is Y_MAX = 3, where
\* it stays.
C4_AdjustSelected ==
    [][/\ last'.op = "increase" =>
            \A i \in Indices(points) :
                (i \in selected_indices /\ ~(i = 0 /\ lock_low_speed)) =>
                    LET y == Pt(points, i)[2]
                        y2 == Pt(points', i)[2]
                    IN  /\ y2 = (IF y + 46 <= 1380 THEN y + 46 ELSE 1380)
                        /\ y < 1380 => y2 > y
                        /\ y = 1380 => y2 = 1380
                        /\ (points = << <<0, 0>>, <<230, 230>>, <<460, 460>> >>
                              /\ i = 1) => y2 = 276
       /\ last'.op = "decrease" =>
            \A i \in Indices(points) :
                (i \in selected_indices /\ ~(i = 0 /\ lock_low_speed)) =>
                    LET y == Pt(points, i)[2]
                        y2 == Pt(points', i)[2]
                    IN  y2 = (IF y - 46 >= 0 THEN y - 46 ELSE 0)
      ]_vars

\* An increase has just brought a selected point, which a drag had left less
\* than 0.1 below the top, to exactly Y_MAX.
C4_Witness ==
    /\ last.op = "increase"
    /\ \E i \in selected_indices :
          /\ i \in Indices(points)
          /\ ~(i = 0 /\ lock_low_speed)
          /\ Pt(points, i) = <<380, Y_MAX>>

\* C5: a drag event on an unlocked index of the list writes at that index the
\* pair whose output is the proposed output clamped to [Y_MIN, Y_MAX] and whose
\* input is the proposed input clamped to [X_MIN, X_MAX], then raised to the
\* previous point's input if below it, then lowered to the next point's input
\* if above it; every other point is unchanged.
C5_MovePoint ==
    [][(last'.op = "drag"
          /\ DragWrites(drag_data.point_index, lock_low_speed, points)) =>
        LET idx == drag_data.point_index
            p == Proposed(last', drag_data)
            out == IF p[2] < Y_MIN THEN Y_MIN
                   ELSE IF p[2] > Y_MAX THEN Y_MAX ELSE p[2]
            in0 == IF p[1] < X_MIN THEN X_MIN
                   ELSE IF p[1] > X_MAX THEN X_MAX ELSE p[1]
            in1 == IF idx - 1 \in Indices(points) /\ in0 < Pt(points, idx - 1)[1]
                   THEN Pt(points, idx - 1)[1] ELSE in0
            in2 == IF idx + 1 \in Indices(points) /\ in1 > Pt(points, idx + 1)[1]
                   THEN Pt(points, idx + 1)[1] ELSE in1
        IN  /\ Len(points') = Len(points)
            /\ Pt(points', idx) = <<in2, out>>
            /\ \A j \in Indices(points) : j # idx => Pt(points', j) = Pt(points, j)
      ]_vars

\* A drag has just moved a point whose proposed input was below the previous
\* point's input and whose proposed output was below Y_MIN: it sits at the
\* previous point's input with output Y_MIN.
C5_Witness ==
    /\ last.op = "drag" /\ ~last.raised
    /\ \E i \in Indices(points) :
          /\ i = drag_data.point_index
          /\ i > 0
          /\ Pt(points, i - 1)[1] > X_MIN
          /\ Proposed(last, drag_data)[1] < Pt(points, i - 1)[1]
          /\ Proposed(last, drag_data)[2] < Y_MIN
          /\ Pt(points, i) = <<Pt(points, i - 1)[1], Y_MIN>>

\* C6: every time the curve is rebuilt from a preset, the selection set is
\* empty immediately afterwards, whatever it held before.
C6_PresetClearsSelection ==
    last.op \in PresetOps => selected_indices = {}

\* A preset has just been rebuilt after a press that had selected a point.
C6_Witness ==
    /\ last.op \in PresetOps
    /\ selected_indices = {}
    /\ drag_data.point_index \in {1, 2}
    /\ steps = 2

\* The index on_press finds under the event recorded in ev.
Hit(pts, ev) == find_nearby_point(pts, ev.x, ev.y, ev.inward)

\* The selection the toggleSelection rule gives for index idx.
Toggled(sel, idx, additive) ==
    IF ~additive THEN {idx}
    ELSE IF idx \in sel THEN sel \ {idx} ELSE sel \cup {idx}

\* C7 as stated: for every press that hits a control point, the selection
\* becomes {index} without the modifier, and with it index is removed when
\* present and added when absent, every other member being kept.
C7_Original ==
    [][(last'.op = "press" /\ Hit(points, last') # None) =>
          selected_indices' =
              Toggled(selected_indices, Hit(points, last'), last'.shift)]_vars

\* C7 as amended: the rule holds for every press that hits a control point
\* other than point 0 under the lock; a press that hits point 0 while the lock
\* is on is ignored and leaves the selection set and the drag target unchanged.
C7_ToggleSelection ==
    [][(last'.op = "press" /\ Hit(points, last') # None) =>
          IF Hit(points, last') = 0 /\ lock_low_speed
          THEN /\ selected_indices' = selected_indices
               /\ drag_data' = drag_data
          ELSE selected_indices' =
                  Toggled(selected_indices, Hit(points, last'), last'.shift)]_vars

\* A press with the modifier has just removed the point it hit from a
\* selection that keeps another member.
C7_Witness ==
    /\ last.op = "press" /\ last.shift
    /\ Hit(points, last) # None
    /\ drag_data.point_index = Hit(points, last)
    /\ Hit(points, last) \notin selected_indices
    /\ selected_indices # {}

\* Query positions for the hit test: the event positions and pixels at, just
\* inside and just outside the radius of the low point.
QueryPositions ==
    EventPositions \cup
        { <<26, 480>>, <<27, 480>>, <<20, 474>>, <<20, 473>>, <<24, 476>>,
          <<25, 484>> }

\* Nine times the squared distance, in pixels, between pixel q and the
\* position (20 + 460 * input, 480 - 460 * output / 3) where point i is
\* rendered.
Distance9(pts, i, q) ==
    9 * (20 + Pt(pts, i)[1] - q[1]) * (20 + Pt(pts, i)[1] - q[1])
      + (1440 - Pt(pts, i)[2] - 3 * q[2]) * (1440 - Pt(pts, i)[2] - 3 * q[2])

\* The points that exact arithmetic puts exactly 6 pixels away from q.
Borderline(pts, q) == {i \in Indices(pts) : Distance9(pts, i, q) = 324}

\* The indices whose rendered position is within 6 pixels of pixel q.  The
\* rendered position is a floating point value: for a borderline point,
\* closer says on which side of the radius its rendered position is.
InReach(pts, q, closer) ==
    {i \in Indices(pts) :
        LET d == Distance9(pts, i, q)
        IN  d < 324 \/ (d = 324 /\ i \in closer)}

\* A press exactly 6 pixels from where exact arithmetic puts a point moved by
\* a drag has just missed it: its rendered position is outside the radius.
BorderlineMissed ==
    /\ last.op = "press"
    /\ \E i \in Borderline(points, <<last.x, last.y>>) :
          /\ i \notin last.inward
          /\ Pt(points, i) # Pt(preset_points(use_windows_curve,
                                              enable_nonlinear_boost,
                                              enable_acceleration_cap), i)
    /\ InReach(points, <<last.x, last.y>>, last.inward) = {}
    /\ selected_indices = {}

\* The same press has just found the point: its rendered position is
\* within the radius.
BorderlineFound ==
    /\ last.op = "press"
    /\ \E i \in Borderline(points, <<last.x, last.y>>) :
          /\ i \in last.inward
          /\ drag_data.point_index = i
          /\ selected_indices = {i}
          /\ Pt(points, i) # Pt(preset_points(use_windows_curve,
                                              enable_nonlinear_boost,
                                              enable_acceleration_cap), i)

\* C8: the hit test returns the lowest index among the control points whose
\* rendered position is within the radius of the query position, and none
\* exactly when no point is within the radius.
C8_HitTestLowestIndex ==
    \A q \in QueryPositions :
        \A closer \in SUBSET Borderline(points, q) :
            LET S == InReach(points, q, closer)
                r == find_nearby_point(points, q[1], q[2], closer)
            IN  /\ (r = None) <=> (S = {})
                /\ S # {} => (r \in S /\ \A i \in S : r <= i)

\* A press has just grabbed the lower of two control points that are both
\* within the radius of the press position.
C8_Witness ==
    /\ last.op = "press"
    /\ Cardinality(InReach(points, <<last.x, last.y>>, last.inward)) >= 2
    /\ drag_data.point_index \in InReach(points, <<last.x, last.y>>, last.inward)
    /\ \A i \in InReach(points, <<last.x, last.y>>, last.inward) :
          drag_data.point_index <= i

(***************************************************************************)
(* Properties of the decoder, checked under SpecDecode.                    *)
(***************************************************************************)
\* The number of whole records of table t.
WholeRecords(t) == Len(t) \div 8

\* The table t with the byte at 0-based position pos replaced by b.
Poke(t, pos, b) == [t EXCEPT ![pos + 1] = b]

\* C9: for every byte table of length 8n the decoder returns exactly n values
\* in record order, and the i-th value depends only on bytes [8i, 8i+4):
\* changing a padding byte of record i or any byte of another record leaves
\* the i-th value unchanged.
C9_OneValuePerRecord ==
    (pc # "start" /\ Len(smooth_mouse_x_curve) % 8 = 0) =>
        LET t == smooth_mouse_x_curve
            n == WholeRecords(t)
        IN  /\ Len(x_points) = n
            /\ \A i \in 0..(n - 1) :
                  x_points[i + 1] =
                      hex_to_decimal(SubSeq(t, 8 * i + 1, 8 * i + 8))[1]
            /\ \A pos \in 0..(Len(t) - 1), b \in ByteValues :
                  LET d == hex_to_decimal(Poke(t, pos, b))
                  IN  /\ Len(d) = n
                      /\ \A i \in 0..(n - 1) :
                            (pos < 8 * i \/ pos >= 8 * i + 4) =>
                                d[i + 1] = x_points[i + 1]

\* A table of two records that decode to different values, the first with a
\* padding byte set, has been decoded.
C9_Witness ==
    /\ pc = "x_done"
    /\ Len(smooth_mouse_x_curve) = 16
    /\ smooth_mouse_x_curve[5] # 0
    /\ Len(x_points) = 2
    /\ x_points[1] # x_points[2]

\* C10: each 8-byte record decodes to (bytes 2-3 as a signed little-endian
\* 16-bit integer) + (bytes 0-1 as an unsigned little-endian 16-bit
\* integer)/65536; a record with byte 3 >= 0x80 has a negative integer part,
\* 00 40 01 00 decodes to 1.25 and 15 6e 00 00 to 0x6e15/65536.
C10_SignedIntegerPlusFraction ==
    pc # "start" =>
        \A i \in 0..(WholeRecords(smooth_mouse_x_curve) - 1) :
            LET b == SubSeq(smooth_mouse_x_curve, 8 * i + 1, 8 * i + 8)
                v == x_points[i + 1]
                int16 == IF b[4] >= 128 THEN b[3] + 256 * b[4] - 65536
                         ELSE b[3] + 256 * b[4]
            IN  /\ v = int16 * 65536 + (b[1] + 256 * b[2])
                /\ b[4] >= 128 => v < 0
                /\ SubSeq(b, 1, 4) = <<0, 64, 1, 0>> => 4 * v = 5 * 65536
                /\ SubSeq(b, 1, 4) = <<21, 110, 0, 0>> => v = 28181

\* The table 00 40 01 00 .. followed by a record with byte 3 >= 0x80 whose
\* fraction is not zero has been decoded.
C10_Witness ==
    /\ pc = "x_done"
    /\ Len(smooth_mouse_x_curve) = 16
    /\ SubSeq(smooth_mouse_x_curve, 1, 4) = <<0, 64, 1, 0>>
    /\ smooth_mouse_x_curve[12] >= 128
    /\ smooth_mouse_x_curve[9] # 0
    /\ x_points[1] = 81920
    /\ x_points[2] < 0

\* C11: decoding a byte table whose length is not a multiple of 8 fails with
\* DecodeError and produces no values.
C11_PartialTableFails ==
    (pc # "start" /\ Len(smooth_mouse_x_curve) % 8 # 0) =>
        (pc = "DecodeError" /\ x_points = <<>>)

\* C12: when the decoded X and Y sequences differ in length, the pairing
\* fails with MismatchedLengthError instead of producing a list of pairs.
C12_MismatchedLengthsFail ==
    pc = "zipped" => Len(x_points) = Len(y_points)

(***************************************************************************)
(* Properties of the device interface, checked under Spec (simulator2.py)  *)
(* and SpecSimulator (simulator.py).                                       *)
(***************************************************************************)
\* The application recorded in xinput ran to its end on Linux.
Completed == platform = "Linux" /\ ~xinput.failed /\ xinput.reported = ""

\* The set-prop invocations among those recorded, in order.
SetCalls == SelectSeq(xinput.calls, LAMBDA c : c.cmd = "set-prop")

\* What an invocation sets: the command, the property and the values.
Setting(cmd, prop, args) == [cmd |-> cmd, prop |-> prop, args |-> args]

\* The settings of the set-prop invocations recorded, in order.
Settings == [k \in 1..Len(SetCalls) |->
               Setting(SetCalls[k].cmd, SetCalls[k].prop, SetCalls[k].args)]

\* The three set-prop invocations the interface is specified to receive for
\* the outputs ys (in hundredths).
Expected(ys) ==
    << Setting("set-prop", MOTION_POINTS, ys),
       Setting("set-prop", MOTION_STEP, <<100>>),
       Setting("set-prop", PROFILE_ENABLED, <<0, 0, 100>>) >>

\* C13: each application of the curve to the device issues exactly three
\* property-setting calls, in this order: the motion points set to the
\* current outputs of all points in index order, the motion step set to 1.0,
\* the acceleration profile set to (0, 0, 1).  Stated for simulator.py.
C13_ThreeCallsInOrder ==
    Completed => Settings = Expected(simulator_y_values(points))

\* The same statement for simulator2.py, where it holds.
ThreeCallsInOrder_simulator2 ==
    Completed => Settings = Expected(y_values(points))

\* C14: every device application first queries the device's supported
\* property list, before any property-setting call; if either required
\* property name is absent, an error is reported and none of the three
\* property-setting calls is issued.  It holds under Spec (simulator2.py);
\* under SpecSimulator (simulator.py) no query is ever made.
C14_QueryBeforeSet ==
    /\ xinput.calls # <<>> => xinput.calls[1].cmd = "list-props"
    /\ SetCalls # <<>> => supported(xinput.props)
    /\ (platform = "Linux" /\ ~xinput.failed /\ ~supported(xinput.props)) =>
           (xinput.reported # "" /\ SetCalls = <<>>)

\* C15: a failure of any device-configuration invocation (the query or any
\* of the three property-setting calls) is caught and reported; it does not
\* propagate out of the event handler.
C15_FailureCaught ==
    xinput.failed =>
        (xinput.reported # "" /\ ~xinput.raised /\ ~last.raised)

(***************************************************************************)
(* Properties of the device enumeration, checked under SpecDevices.        *)
(***************************************************************************)
\* Every letter in its two cases.
LetterPairs == {<<Capitals[k], Smalls[k]>> : k \in 1..Len(Capitals)}

\* The letters a and b are the same letter, in either case.
SameLetter(a, b) ==
    a = b \/ <<a, b>> \in LetterPairs \/ <<b, a>> \in LetterPairs

\* The name d contains the word, case-insensitively: at some position of d
\* the letters of the word follow one another.
Mentions(d, word) ==
    \E k \in 0..(Len(d) - Len(word)) :
        \A j \in 1..Len(word) : SameLetter(d[k + j], word[j])

\* The listed names that name a pointer device, in the listed order.
Listed == SelectSeq(xinput_list, LAMBDA d : Mentions(d, mouse) \/ Mentions(d, touchpad))

\* The rank the stated order gives a name: usb, then mouse, then optical,
\* then all others.
Rank(d) ==
    CASE Mentions(d, usb) -> 1
      [] ~Mentions(d, usb) /\ Mentions(d, mouse) -> 2
      [] ~Mentions(d, usb) /\ ~Mentions(d, mouse) /\ Mentions(d, optical) -> 3
      [] OTHER -> 4

\* C16: device enumeration returns exactly the listed names that contain
\* "mouse" or "touchpad" (case-insensitive), ordered so that names containing
\* "usb" come first, then names containing "mouse", then "optical", then all
\* others, names of equal priority keeping their listed order.
C16_FilteredAndOrdered ==
    enum_pc = "returned" =>
        LET listed == Listed
        IN  pointer_devices =
                SelectSeq(listed, LAMBDA d : Rank(d) = 1)
                  \o SelectSeq(listed, LAMBDA d : Rank(d) = 2)
                  \o SelectSeq(listed, LAMBDA d : Rank(d) = 3)
                  \o SelectSeq(listed, LAMBDA d : Rank(d) = 4)

\* The first listed name was dropped, the second and the fourth are
\* different names of equal rank that hold their keyword inside a longer
\* word, listed around a name of a better rank, and the result has the
\* better one first and the other two in listed order.
C16_Witness ==
    /\ enum_pc = "returned"
    /\ Len(xinput_list) = 4
    /\ ~Mentions(xinput_list[1], mouse) /\ ~Mentions(xinput_list[1], touchpad)
    /\ Rank(xinput_list[2]) = Rank(xinput_list[4])
    /\ xinput_list[2] # xinput_list[4]
    /\ \A k \in {2, 4} : \A c \in {xinput_list[k][j] : j \in 1..Len(xinput_list[k])} : c # " "
    /\ Rank(xinput_list[3]) < Rank(xinput_list[2])
    /\ pointer_devices = <<xinput_list[3], xinput_list[2], xinput_list[4]>>

(***************************************************************************)
(* Further properties of the curve editor, checked under Spec.             *)
(***************************************************************************)
EditOps == {"drag", "press", "release", "increase", "decrease"}

\* C17: the point sequence has length 4 exactly when the Windows-curve flag
\* is on and length 3 exactly when it is off; no drag, press, release,
\* increase or decrease changes the length.
C17_LengthFollowsWindowsFlag ==
    /\ Len(points) = (IF use_windows_curve THEN 4 ELSE 3)
    /\ [][/\ Len(points') = (IF use_windows_curve' THEN 4 ELSE 3)
          /\ last'.op \in EditOps => Len(points') = Len(points)]_vars

\* A drag has just moved a point of the Windows preset, and the four points
\* are no longer the preset's.
C17_Witness ==
    /\ use_windows_curve
    /\ last.op = "drag" /\ ~last.raised
    /\ drag_data.point_index \in Indices(points)
    /\ points # WINDOWS_CURVE
    /\ Len(points) = 4

\* C18: a press within the radius of no control point clears the selection
\* and leaves the point sequence unchanged.
C18_MissClearsSelection ==
    [][(last'.op = "press"
          /\ \A i \in Indices(points) :
                ~within_radius(Pt(points, i), last'.x, last'.y,
                               i \in last'.inward))
         => (selected_indices' = {} /\ points' = points)]_vars

\* A press has just missed every point while a point moved by a drag was
\* selected, and the selection is empty.
C18_Witness ==
    /\ last.op = "press"
    /\ \A i \in Indices(points) :
          ~within_radius(Pt(points, i), last.x, last.y, i \in last.inward)
    /\ selected_indices = {}
    /\ drag_data.point_index \in Indices(points)
    /\ points # preset_points(use_windows_curve, enable_nonlinear_boost,
                              enable_acceleration_cap)

\* C19: an increase or decrease changes only the outputs of selected points:
\* the input of every point, the output of every point outside the selection,
\* the selection, the three preset flags, the lock flag and the drag target
\* are unchanged.
C19_AdjustFrame ==
    [][last'.op \in {"increase", "decrease"} =>
          /\ Len(points') = Len(points)
          /\ \A i \in Indices(points) :
                /\ Pt(points', i)[1] = Pt(points, i)[1]
                /\ i \notin selected_indices => Pt(points', i)[2] = Pt(points, i)[2]
          /\ selected_indices' = selected_indices
          /\ use_windows_curve' = use_windows_curve
          /\ enable_nonlinear_boost' = enable_nonlinear_boost
          /\ enable_acceleration_cap' = enable_acceleration_cap
          /\ lock_low_speed' = lock_low_speed
          /\ drag_data' = drag_data]_vars

\* A decrease has just lowered the one selected point, which is the drag
\* target, from 0.5 to 0.4 and left the other two at their presets.
C19_Witness ==
    /\ last.op = "decrease"
    /\ selected_indices = {1}
    /\ drag_data.point_index = 1
    /\ ~use_windows_curve /\ ~enable_nonlinear_boost /\ ~enable_acceleration_cap
    /\ points = << <<Tenths(0), Tenths(0)>>, <<Tenths(5), Tenths(4)>>,
                   <<Tenths(10), Tenths(10)>> >>

\* C20: a drag target that is set is always a valid index of the current
\* point sequence, also when a preset toggle shortens the sequence from 4 to
\* 3 between a press on index 3 and the release.
C20_DragTargetValid ==
    drag_data.point_index # None => drag_data.point_index \in Indices(points)

\* C21: in every reachable state every member of the selection is a valid
\* index of the current point sequence (0 <= i < length), so an increase or
\* decrease never addresses a point that does not exist.
C21_SelectionValid ==
    /\ \A i \in selected_indices : 0 <= i /\ i < Len(points)
    /\ ~out_of_range(points, selected_indices, lock_low_speed)

\* Points 1 and 3 of the Windows preset are selected together.
C21_Witness ==
    /\ use_windows_curve
    /\ Len(points) = 4
    /\ selected_indices = {1, 3}
    /\ last.op = "press" /\ last.shift

\* The point with index i is rendered exactly at the pixel of the event ev.
RenderedAt(pts, i, ev) ==
    to_canvas_coords(Pt(pts, i)[1], Pt(pts, i)[2]) = <<Sub * ev.x, Sub * ev.y>>

\* C22: while the lock on index 0 is on, every control point with index >= 1
\* stays selectable: a press at that point's rendered position selects it
\* and makes it the drag target, whatever positions earlier drags have given
\* the points (including a point dragged onto the position of point 0).
C22_UnlockedPointsSelectable ==
    [][(lock_low_speed /\ last'.op = "press" /\ ~last'.shift) =>
          \A i \in Indices(points) :
              (i >= 1 /\ RenderedAt(points, i, last')) =>
                  (i \in selected_indices' /\ drag_data'.point_index = i)]_vars

\* The press recorded in ev, made on the points pts, hit a control point that
\* the lock does not exclude.
HitUnlocked(pts, ev, lock) ==
    LET idx == find_nearby_point(pts, ev.x, ev.y, ev.inward)
    IN  idx # None /\ ~(idx = 0 /\ lock)

\* C23: a release clears the drag target, and from then until the next press
\* that hits an unlocked control point, drag events leave the point sequence
\* and the selection unchanged: the target stays cleared over every step
\* other than such a press, and a drag without a target changes neither.
C23_ReleaseEndsDrag ==
    [][/\ last'.op = "release" => drag_data'.point_index = None
       /\ (drag_data.point_index = None
             /\ ~(last'.op = "press" /\ HitUnlocked(points, last', lock_low_speed)))
            => drag_data'.point_index = None
       /\ (drag_data.point_index = None /\ last'.op = "drag")
            => (points' = points /\ selected_indices' = selected_indices)]_vars

\* A point was pressed, moved and released, and a drag to another position
\* has just arrived: there is no drag target, the moved point is still
\* selected and still where the first drag left it.
C23_Witness ==
    /\ last.op = "drag"
    /\ <<last.x, last.y>> = <<0, 500>>
    /\ steps = 4
    /\ drag_data.point_index = None
    /\ lock_low_speed
    /\ selected_indices = {1}
    /\ points = << <<Tenths(0), Tenths(0)>>, <<380, 1358>>,
                   <<Tenths(10), Tenths(10)>> >>

\* The same statement for simulator.py, which has no lock and no selection:
\* every press that hits a point sets the drag target.
ReleaseEndsDrag_simulator ==
    [][/\ last'.op = "release" => drag_data'.point_index = None
       /\ (drag_data.point_index = None
             /\ ~(last'.op = "press"
                    /\ simulator_find_nearby_point(points, last'.x, last'.y,
                                                   last'.inward) # None))
            => drag_data'.point_index = None
       /\ (drag_data.point_index = None /\ last'.op = "drag")
            => (points' = points /\ selected_indices' = selected_indices)]_vars

====
